---- MODULE Spec2Model ----
(***************************************************************************)
(* The connection registry (NotificationService.connectedClients), the     *)
(* WebSocket gateway (NotificationGateway) and the webhook ingress         *)
(* (WebhookController.receiveNotification) of the notification relay.      *)
(*                                                                         *)
(* Node runs every handler to completion on one thread and none of the     *)
(* handlers awaits, so each handler is one atomic action.  The history     *)
(* variables describe the handler that has just run; the event loop drops  *)
(* them (Idle) before it dispatches the next event.                        *)
(*                                                                         *)
(* Socket ids and user ids are drawn from 1..NumSockets and 1..NumUsers.   *)
(* ConnectedClient.connectedAt (a wall-clock stamp no handler reads) is    *)
(* left out of the entries.                                                *)
(***************************************************************************)
EXTENDS Integers, Sequences, FiniteSets, TLC

NumSockets == 2
NumUsers == 2
MaxTargets == 2
MaxHeaderWords == 3
MaxNotifications == 2

SocketIds == 1..NumSockets
UserIds == 1..NumUsers
NoUser == 0
Anonymous == 0 - 1

VARIABLES
  webhookToken,      \* configService.get('WEBHOOK_API_TOKEN')
  connectedClients,  \* NotificationService.connectedClients: Map in insertion order
  serverSockets,     \* NotificationGateway.server.sockets: ids of the open sockets
  registered,        \* history: socket id -> identity of its last addClient not yet removed
  op,                \* history: the handler that has just run, "idle" between events
  clientId,          \* history: client.id of the socket handleConnection / handleDisconnect got
  handshake,         \* history: the token the handshake of that socket carried
  authHeader,        \* history: the Authorization header of the webhook request
  before,            \* history: connectedClients when that handler was called
  targetUsers,       \* history: the userIds / targetUsers argument of that handler
  failing,           \* history: open sockets whose socket.emit raises during that handler
  attempts,          \* history: socket ids the emit function was called with, in order
  removeCalls,       \* history: socket ids removeClient was called with, in order
  successful,        \* history: successfulSocketIds of the service call
  calls,             \* history: gateway methods the controller invoked
  outcome,           \* history: how the handler ended (return / throw)
  response,          \* history: the body receiveNotification returned
  earlier,           \* history: allSocketIds of the broadcast before the last one
  normalized,        \* history: the processWebhookNotification calls, payload and result
  emitted,           \* history: socket id and notification of each emitFunction call
  tryError           \* history: the error the try block of receiveNotification raised

vars == <<webhookToken, connectedClients, serverSockets, registered, op, clientId,
          handshake, authHeader, before, targetUsers, failing, attempts,
          removeCalls, successful, calls, outcome, response, earlier, normalized,
          emitted, tryError>>

Range(f) == {f[i] : i \in DOMAIN f}

(***************************************************************************)
(* Map<string, ConnectedClient>: a sequence of entries in insertion order. *)
(***************************************************************************)
MapKeys(m) == [i \in 1..Len(m) |-> m[i].socketId]

MapHas(m, k) == \E i \in 1..Len(m) : m[i].socketId = k

MapSetAppend(m, k, v) == Append(m, v)

MapSetKeep(m, k, v) == IF MapHas(m, k) THEN m ELSE Append(m, v)

MapSet(m, k, v) ==
  IF MapHas(m, k)
    THEN [i \in 1..Len(m) |-> IF m[i].socketId = k THEN v ELSE m[i]]
    ELSE Append(m, v)

MapDeleteUpTo(m, k) ==
  LET at == CHOOSE i \in 1..Len(m) : m[i].socketId = k
  IN IF MapHas(m, k) THEN SubSeq(m, at + 1, Len(m)) ELSE m

MapDelete(m, k) == SelectSeq(m, LAMBDA c : c.socketId # k)

(***************************************************************************)
(* NotificationService: client management.                                 *)
(***************************************************************************)
addClient(m, userId, socketId) ==
  MapSet(m, socketId, [socketId |-> socketId, userId |-> userId])

removeClientAndPeers(m, socketId) ==
  LET at == CHOOSE i \in 1..Len(m) : m[i].socketId = socketId
  IN IF MapHas(m, socketId)
       THEN [i \in 1..(Len(m) - 1) |->
               LET c == IF i < at THEN m[i] ELSE m[i + 1]
               IN [socketId |-> c.socketId, userId |-> m[at].userId]]
       ELSE m

removeClientByUser(m, socketId) ==
  SelectSeq(m, LAMBDA c :
    \A i \in 1..Len(m) : m[i].socketId = socketId => c.userId # m[i].userId)

removeClient(m, socketId) ==
  IF MapHas(m, socketId) THEN MapDelete(m, socketId) ELSE m

getConnectedClients(m) == m

getClientsByUserId(m, userId) == SelectSeq(m, LAMBDA c : c.userId = userId)

isUserConnected(m, userId) == Len(getClientsByUserId(m, userId)) > 0

getConnectedClientsCountUsers(m) == Cardinality({m[i].userId : i \in 1..Len(m)})

getConnectedClientsCount(m) == Len(m)

DedupeNone(s) == s

RECURSIVE Dedupe(_)
Dedupe(s) ==
  IF s = <<>> THEN <<>>
  ELSE LET init == Dedupe(SubSeq(s, 1, Len(s) - 1))
           x == s[Len(s)]
       IN IF x \in Range(init) THEN init ELSE Append(init, x)

getConnectedUsers(m) == Dedupe([i \in 1..Len(m) |-> m[i].userId])

(***************************************************************************)
(* NotificationGateway.emitToSocket(socketId, 'notification', dto).        *)
(* srv is server.sockets; emitThrows is the set of open sockets whose      *)
(* socket.emit raises during this request.  The result carries the         *)
(* registry after the call and whether the call raised                     *)
(* WebSocketNotificationException.  A socket the server does not hold is   *)
(* removed in the else branch and again in the outer catch, which the      *)
(* exception thrown inside the try reaches.  removeThrows (the five-       *)
(* argument form): notificationService.removeClient raises, which both     *)
(* cleanup try blocks catch and log; emits counts the socket.emit calls    *)
(* and exception is the class of what the call throws.                     *)
(***************************************************************************)
emitToSocketNoCleanup(m, srv, emitThrows, socketId) ==
  IF socketId \in srv /\ socketId \notin emitThrows
    THEN [clients |-> m, threw |-> FALSE, reason |-> "none", removals |-> 0]
    ELSE [clients |-> m, threw |-> TRUE, reason |-> "Timeout de notificacion",
          removals |-> 0]

emitToSocketEvictAlways(m, srv, emitThrows, socketId) ==
  IF socketId \in srv
    THEN IF socketId \in emitThrows
           THEN [clients |-> removeClient(m, socketId), threw |-> TRUE,
                 reason |-> "Timeout de notificacion", removals |-> 1]
           ELSE [clients |-> removeClient(m, socketId), threw |-> FALSE,
                 reason |-> "none", removals |-> 1]
    ELSE [clients |-> removeClient(removeClient(m, socketId), socketId),
          threw |-> TRUE, reason |-> "Cliente no encontrado", removals |-> 2]

emitToSocketKeepMissing(m, srv, emitThrows, socketId) ==
  IF socketId \in srv
    THEN IF socketId \in emitThrows
           THEN [clients |-> removeClient(m, socketId), threw |-> TRUE,
                 reason |-> "Timeout de notificacion", removals |-> 1]
           ELSE [clients |-> m, threw |-> FALSE, reason |-> "none",
                 removals |-> 0]
    ELSE [clients |-> m, threw |-> TRUE, reason |-> "Cliente no encontrado",
          removals |-> 0]

emitToSocketCleanupRaises(m, srv, emitThrows, socketId, removeThrows) ==
  LET cleaned == IF removeThrows THEN m ELSE removeClient(m, socketId)
      raised == IF removeThrows THEN "Error" ELSE "WebSocketNotificationException"
  IN IF socketId \in srv
       THEN IF socketId \in emitThrows
              THEN [clients |-> cleaned, threw |-> TRUE,
                    exception |-> raised,
                    reason |-> "Timeout de notificacion", emits |-> 1,
                    removals |-> 1]
              ELSE [clients |-> m, threw |-> FALSE, exception |-> "none",
                    reason |-> "none", emits |-> 1, removals |-> 0]
       ELSE [clients |-> cleaned, threw |-> TRUE, exception |-> raised,
             reason |-> "Cliente no encontrado", emits |-> 0,
             removals |-> IF removeThrows THEN 1 ELSE 2]

emitToSocketRemoving(m, srv, emitThrows, socketId, removeThrows) ==
  LET cleaned == IF removeThrows THEN m ELSE removeClient(m, socketId)
  IN IF socketId \in srv
       THEN IF socketId \in emitThrows
              THEN [clients |-> cleaned, threw |-> TRUE,
                    exception |-> "WebSocketNotificationException",
                    reason |-> "Timeout de notificacion", emits |-> 1,
                    removals |-> 1]
              ELSE [clients |-> m, threw |-> FALSE, exception |-> "none",
                    reason |-> "none", emits |-> 1, removals |-> 0]
       ELSE [clients |-> IF removeThrows THEN m ELSE removeClient(cleaned, socketId),
             threw |-> TRUE, exception |-> "WebSocketNotificationException",
             reason |-> "Cliente no encontrado", emits |-> 0, removals |-> 2]

\* with NotificationService, whose removeClient (Map.get, Map.delete) never
\* raises
emitToSocket(m, srv, emitThrows, socketId) ==
  LET r == emitToSocketRemoving(m, srv, emitThrows, socketId, FALSE)
  IN [clients |-> r.clients, threw |-> r.threw, reason |-> r.reason,
      removals |-> r.removals]

(***************************************************************************)
(* The body of the forEach callbacks of broadcastNotification and          *)
(* sendToUsers: try { emitFunction(id, dto); successfulSocketIds.push(id) }*)
(* catch { log }.  st = [clients, attempts, removed, successful], removed   *)
(* being the ids removeClient has been called with.                        *)
(***************************************************************************)
tryEmit(st, srv, emitThrows, socketId) ==
  LET r == emitToSocket(st.clients, srv, emitThrows, socketId)
  IN [clients |-> r.clients,
      attempts |-> Append(st.attempts, socketId),
      removed |-> st.removed \o [i \in 1..r.removals |-> socketId],
      successful |-> IF r.threw THEN st.successful
                     ELSE Append(st.successful, socketId)]

RECURSIVE forEachSocketAbort(_, _, _, _, _)
forEachSocketAbort(ids, i, st, srv, emitThrows) ==
  IF i > Len(ids) THEN st
  ELSE LET nxt == tryEmit(st, srv, emitThrows, ids[i])
       IN IF Len(nxt.successful) = Len(st.successful) THEN nxt
          ELSE forEachSocketAbort(ids, i + 1, nxt, srv, emitThrows)

RECURSIVE forEachSocket(_, _, _, _, _)
forEachSocket(ids, i, st, srv, emitThrows) ==
  IF i > Len(ids) THEN st
  ELSE forEachSocket(ids, i + 1, tryEmit(st, srv, emitThrows, ids[i]),
                     srv, emitThrows)

(***************************************************************************)
(* NotificationService.broadcastNotification: the snapshot of the keys is  *)
(* taken before the first emit.                                            *)
(***************************************************************************)
broadcastNotification(m, srv, emitThrows) ==
  LET allSocketIds == MapKeys(m)
  IN forEachSocket(allSocketIds, 1,
                   [clients |-> m, attempts |-> <<>>, removed |-> <<>>,
                    successful |-> <<>>],
                   srv, emitThrows)

(***************************************************************************)
(* NotificationService.sendToUsers: getClientsByUserId is evaluated for    *)
(* each userId when its turn comes, on the registry as the earlier emits   *)
(* left it.                                                                *)
(***************************************************************************)
userClientsAll(m, userId) == MapKeys(getConnectedClients(m))

userClientsNewestFirst(m, userId) ==
  LET ids == MapKeys(getClientsByUserId(m, userId))
  IN [i \in 1..Len(ids) |-> ids[Len(ids) + 1 - i]]

userClients(m, userId) == MapKeys(getClientsByUserId(m, userId))

RECURSIVE forEachUserAbort(_, _, _, _, _)
forEachUserAbort(userIds, j, st, srv, emitThrows) ==
  IF j > Len(userIds) \/ Len(st.successful) < Len(st.attempts) THEN st
  ELSE forEachUserAbort(userIds, j + 1,
                        forEachSocket(userClients(st.clients, userIds[j]), 1, st,
                                      srv, emitThrows),
                        srv, emitThrows)

RECURSIVE forEachUser(_, _, _, _, _)
forEachUser(userIds, j, st, srv, emitThrows) ==
  IF j > Len(userIds) THEN st
  ELSE forEachUser(userIds, j + 1,
                   forEachSocket(userClients(st.clients, userIds[j]), 1, st,
                                 srv, emitThrows),
                   srv, emitThrows)

sendToUsers(m, userIds, srv, emitThrows) ==
  forEachUser(userIds, 1,
              [clients |-> m, attempts |-> <<>>, removed |-> <<>>,
                    successful |-> <<>>],
              srv, emitThrows)

(***************************************************************************)
(* An optional array argument: isArray is FALSE for null / undefined / an  *)
(* omitted field.                                                          *)
(***************************************************************************)
Absent == [isArray |-> FALSE, value |-> <<>>]
Array(a) == [isArray |-> TRUE, value |-> a]

Returned == [kind |-> "return", exception |-> "none"]
Threw(e) == [kind |-> "throw", exception |-> e]

\* an error message: the words of interest it includes, or undefined
NoMessage == [some |-> FALSE, words |-> {}]

\* an exception whose message is text + the message of the error it wraps
ThrewWith(e, text, wrapped) ==
  [kind |-> "throw", exception |-> e, text |-> text, wrapped |-> wrapped]

\* no error
NoError == [name |-> "none", status |-> 0, message |-> NoMessage]

(***************************************************************************)
(* NotificationGateway.sendToAll and sendToUsers.  sendToUsers evaluates   *)
(* userIds.join(', ') for its log line first, a TypeError when userIds is  *)
(* null or undefined.                                                      *)
(***************************************************************************)
gatewaySendToAllRethrow(m, srv, emitThrows) ==
  LET st == broadcastNotification(m, srv, emitThrows)
  IN [clients |-> st.clients, attempts |-> st.attempts,
      removed |-> st.removed,
      successful |-> st.successful,
      outcome |-> IF st.attempts = st.successful THEN Returned
                  ELSE Threw("WebSocketBroadcastException")]

gatewaySendToAll(m, srv, emitThrows) ==
  LET st == broadcastNotification(m, srv, emitThrows)
  IN [clients |-> st.clients, attempts |-> st.attempts,
      removed |-> st.removed,
      successful |-> st.successful, outcome |-> Returned]

gatewaySendToUsers(m, userIds, srv, emitThrows) ==
  IF ~userIds.isArray
    THEN [clients |-> m, attempts |-> <<>>, removed |-> <<>>,
          successful |-> <<>>,
          outcome |-> Threw("TypeError")]
    ELSE LET st == sendToUsers(m, userIds.value, srv, emitThrows)
         IN [clients |-> st.clients, attempts |-> st.attempts,
             removed |-> st.removed,
             successful |-> st.successful, outcome |-> Returned]

(***************************************************************************)
(* WebhookController.receiveNotification.                                  *)
(***************************************************************************)
NoResponse ==
  [status |-> "none", notificationId |-> "null", totalClients |-> 0,
   deliveredTo |-> 0, targetType |-> "none", hasTargetUsers |-> FALSE,
   targetUsers |-> <<>>]

\* the early return taken when getConnectedClientsCount() === 0
noClientsResponse ==
  [status |-> "error", notificationId |-> "null", totalClients |-> 0,
   deliveredTo |-> 0, targetType |-> "broadcast", hasTargetUsers |-> FALSE,
   targetUsers |-> <<>>]

\* notification.targetUsers && notification.targetUsers.length > 0
isTargetedIfPresent(tu) == tu.isArray

isTargeted(tu) == tu.isArray /\ Len(tu.value) > 0

\* notification.targetUsers.filter((userId) => isUserConnected(userId))
connectedTargetUsers(m, userIds) ==
  SelectSeq(userIds, LAMBDA u : isUserConnected(m, u))

\* connectedTargetUsers.reduce((count, userId) =>
\*   count + getClientsByUserId(userId).length, 0), evaluated after the send
RECURSIVE targetedDeliveredTo(_, _)
targetedDeliveredTo(m, users) ==
  IF users = <<>> THEN 0
  ELSE Len(getClientsByUserId(m, users[1])) + targetedDeliveredTo(m, Tail(users))

\* deliveredTo = totalConnectedClients
broadcastDeliveredTo(totalConnectedClients) == totalConnectedClients

successResponse(total, deliveredTo, targetType, tu) ==
  [status |-> "success", notificationId |-> "uuid", totalClients |-> total,
   deliveredTo |-> deliveredTo, targetType |-> targetType,
   hasTargetUsers |-> (targetType = "targeted"),
   targetUsers |-> IF targetType = "targeted" THEN tu.value ELSE <<>>]

(***************************************************************************)
(* The catch block of receiveNotification: the exception it throws for the *)
(* error the try block raised.  error.message is given by the words of     *)
(* interest it includes, or is undefined.                                  *)
(***************************************************************************)
catchErrorRethrow(error) ==
  IF error.name = "ValidationError" \/ error.status = 400
    THEN Threw("WebhookValidationException")
  ELSE IF error.message.some
          /\ error.message.words \cap {"notification", "processing"} # {}
    THEN Threw("WebhookProcessingException")
  ELSE IF error.message.some
          /\ error.message.words \cap {"delivery", "send"} # {}
    THEN Threw("WebhookDeliveryException")
  ELSE Threw(error.name)

catchErrorMessageFirst(error) ==
  IF error.message.some
     /\ error.message.words \cap {"notification", "processing"} # {}
    THEN ThrewWith("WebhookProcessingException",
                   "Failed to process notification: ", error.message)
  ELSE IF error.message.some
          /\ error.message.words \cap {"delivery", "send"} # {}
    THEN ThrewWith("WebhookDeliveryException",
                   "Failed to deliver notification: ", error.message)
  ELSE IF error.name = "ValidationError" \/ error.status = 400
    THEN ThrewWith("WebhookValidationException",
                   "Invalid notification data: ", error.message)
  ELSE ThrewWith("WebhookProcessingException",
                 "An unexpected error occurred while processing the webhook",
                 NoMessage)

catchError(error) ==
  IF error.name = "ValidationError" \/ error.status = 400
    THEN ThrewWith("WebhookValidationException",
                   "Invalid notification data: ", error.message)
  ELSE IF error.message.some
          /\ error.message.words \cap {"notification", "processing"} # {}
    THEN ThrewWith("WebhookProcessingException",
                   "Failed to process notification: ", error.message)
  ELSE IF error.message.some
          /\ error.message.words \cap {"delivery", "send"} # {}
    THEN ThrewWith("WebhookDeliveryException",
                   "Failed to deliver notification: ", error.message)
  ELSE ThrewWith("WebhookProcessingException",
                 "An unexpected error occurred while processing the webhook",
                 NoMessage)

\* if (totalConnectedClients === 0) { ...; return {...}; }
noClientsReturnRaises(m) ==
  [clients |-> m, attempts |-> <<>>, removed |-> <<>>,
          successful |-> <<>>, calls |-> <<>>,
   outcome |-> Threw("WebhookDeliveryException"), response |-> NoResponse]

noClientsReturn(m) ==
  [clients |-> m, attempts |-> <<>>, removed |-> <<>>,
          successful |-> <<>>, calls |-> <<>>,
   outcome |-> Returned, response |-> noClientsResponse]

receiveNotification(m, tu, srv, emitThrows) ==
  LET totalConnectedClients == getConnectedClientsCount(m)
  IN IF totalConnectedClients = 0
       THEN noClientsReturn(m)
     ELSE IF isTargeted(tu)
       THEN LET connected == connectedTargetUsers(m, tu.value)
                g == gatewaySendToUsers(m, tu, srv, emitThrows)
            IN [clients |-> g.clients, attempts |-> g.attempts,
                removed |-> g.removed,
                successful |-> g.successful, calls |-> <<"sendToUsers">>,
                outcome |-> Returned,
                response |-> successResponse(totalConnectedClients,
                               targetedDeliveredTo(g.clients, connected),
                               "targeted", tu)]
     ELSE LET g == gatewaySendToAll(m, srv, emitThrows)
          IN [clients |-> g.clients, attempts |-> g.attempts,
              removed |-> g.removed,
              successful |-> g.successful, calls |-> <<"sendToAll">>,
              outcome |-> Returned,
              response |-> successResponse(totalConnectedClients,
                             broadcastDeliveredTo(totalConnectedClients),
                             "broadcast", tu)]

(***************************************************************************)
(* WebhookAuthGuard.  A header value is the sequence of its words, the     *)
(* string being the words joined by single spaces, which is what           *)
(* authHeader.split(' ') returns; <<>> is the header not sent and <<"">>   *)
(* the empty string.  A value that may be undefined or null is a record.   *)
(***************************************************************************)
Undefined == [some |-> FALSE, value |-> ""]

Some(str) == [some |-> TRUE, value |-> str]

\* !x for a string that may be undefined or null
Falsy(x) == ~x.some \/ x.value = ""

\* !authHeader
headerMissing(header) == header = <<>> \/ header = <<"">>

\* const [type, token] = authHeader.split(' ')
extractTokenFromHeader(header) ==
  LET type == header[1]
      tok == IF Len(header) >= 2 THEN Some(header[2]) ELSE Undefined
  IN IF type # "Bearer" \/ Falsy(tok) THEN Undefined ELSE tok

canActivate(header, configured) ==
  IF headerMissing(header)
    THEN [granted |-> FALSE, message |-> "Authorization header is required"]
  ELSE IF Falsy(extractTokenFromHeader(header))
    THEN [granted |-> FALSE, message |-> "Invalid authorization header format"]
  ELSE IF Falsy(configured)
    THEN [granted |-> FALSE, message |-> "Webhook token not configured"]
  ELSE IF extractTokenFromHeader(header).value # configured.value
    THEN [granted |-> FALSE, message |-> "Invalid webhook token"]
  ELSE [granted |-> TRUE, message |-> ""]

(***************************************************************************)
(* NotificationService.processWebhookNotification.  uuid is the value      *)
(* uuidv4() returns to this call.  Of the payload only the fields the      *)
(* properties are about are kept: type (copied like message and data),     *)
(* priority, and id, a field a producer may add and the function does not  *)
(* read.                                                                   *)
(***************************************************************************)
processWebhookNotificationKeepId(webhookNotification, uuid) ==
  [id |-> IF webhookNotification.id.some THEN webhookNotification.id.value
          ELSE uuid,
   type |-> webhookNotification.type,
   priority |-> IF Falsy(webhookNotification.priority) THEN "normal"
                ELSE webhookNotification.priority.value,
   source |-> "webhook"]

processWebhookNotification(webhookNotification, uuid) ==
  [id |-> uuid,
   type |-> webhookNotification.type,
   priority |-> IF Falsy(webhookNotification.priority) THEN "normal"
                ELSE webhookNotification.priority.value,
   source |-> "webhook"]

(***************************************************************************)
(* NotificationService.transformToWebSocketDto: the message every emit of  *)
(* one delivery is given.  timestamp (toISOString of the normalizer's      *)
(* Date) is left out with the normalizer's timestamp.                      *)
(***************************************************************************)
transformToWebSocketDtoDefaults(notification) ==
  [id |-> notification.id,
   type |-> notification.type,
   priority |-> "normal",
   source |-> notification.source]

transformToWebSocketDto(notification) ==
  [id |-> notification.id,
   type |-> notification.type,
   priority |-> notification.priority,
   source |-> notification.source]

(***************************************************************************)
(* Inputs.                                                                 *)
(***************************************************************************)
\* what a try block can raise: name, status (0 when the error has none) and
\* message of the error
Errors ==
  [name : {"Error", "TypeError", "ValidationError"},
   status : {0, 400, 500},
   message : {NoMessage}
               \cup {[some |-> TRUE, words |-> w] :
                       w \in SUBSET {"notification", "processing", "delivery", "send"}}]

TypedFailures ==
  {"WebhookValidationException", "WebhookProcessingException",
   "WebhookDeliveryException"}

Priorities == {"low", "normal", "high"}

PriorityInputs == {Undefined, Some(""), Some("urgent")} \cup {Some(p) : p \in Priorities}

Uuids == 1..MaxNotifications

ProducerIds == {[some |-> FALSE, value |-> 0]}
                 \cup {[some |-> TRUE, value |-> u] : u \in Uuids}

Payloads == [type : {"alert"}, priority : PriorityInputs, id : ProducerIds]

HeaderWords == {"Bearer", "bearer", "", "secret", "Secret"}

Headers == UNION {[1..n -> HeaderWords] : n \in 0..MaxHeaderWords}

WebhookTokens == {Undefined, Some(""), Some("secret")}

\* the header 'Bearer ' + token
BearerHeader(tok) == <<"Bearer", tok>>

NoToken == [kind |-> "unset", id |-> NoUser]

Tokens ==
  {[kind |-> "none", id |-> NoUser], [kind |-> "invalid", id |-> NoUser]}
    \cup {[kind |-> "valid", id |-> u] : u \in UserIds}

TargetLists == UNION {[1..n -> UserIds] : n \in 0..MaxTargets}

TargetArgs == {Absent} \cup {Array(a) : a \in TargetLists}

\* socket.emit is only reached on a socket the server holds, and only for a
\* registered connection of a targeted identity.  Within one request, which
\* runs to completion with the same event name and payload, a socket's emit
\* either raises at every attempt or at none.
EmitFailures(users) ==
  SUBSET {s \in serverSockets :
            \E i \in 1..Len(connectedClients) :
              /\ connectedClients[i].socketId = s
              /\ connectedClients[i].userId \in users}

TargetedUsers(tu) == IF isTargeted(tu) THEN Range(tu.value) ELSE UserIds

Evicted(g) == Range(g.attempts) \ Range(g.successful)

(***************************************************************************)
(* State after construction: an empty registry, no socket.                 *)
(***************************************************************************)
NoRequest ==
  /\ connectedClients = <<>>
  /\ serverSockets = {}
  /\ registered = [s \in SocketIds |-> NoUser]
  /\ op = "idle"
  /\ clientId = 0
  /\ handshake = NoToken
  /\ authHeader = <<>>
  /\ before = <<>>
  /\ removeCalls = <<>>
  /\ earlier = <<>>
  /\ normalized = <<>>
  /\ emitted = <<>>
  /\ tryError = NoError
  /\ targetUsers = Absent
  /\ failing = {}
  /\ attempts = <<>>
  /\ successful = <<>>
  /\ calls = <<>>
  /\ outcome = Returned
  /\ response = NoResponse

\* the deployment the registry and delivery properties are about: the webhook
\* token is configured
Init ==
  /\ webhookToken = Some("secret")
  /\ NoRequest

NoHandshake ==
  /\ clientId' = 0
  /\ handshake' = NoToken

NoDelivery ==
  /\ authHeader' = <<>>
  /\ targetUsers' = Absent
  /\ failing' = {}
  /\ attempts' = <<>>
  /\ successful' = <<>>
  /\ calls' = <<>>
  /\ outcome' = Returned
  /\ response' = NoResponse

(***************************************************************************)
(* NotificationGateway.handleConnection(client).  socket.io holds the new  *)
(* socket while the handler runs; client.disconnect(true) drops it.        *)
(* lateFailure: client.emit('connected') or client.join raises after       *)
(* addClient, which the catch answers with the error event and disconnect. *)
(***************************************************************************)
HandleConnectionUnverified(client, token, lateFailure) ==
  /\ op = "idle"
  /\ client \notin serverSockets
  /\ before' = connectedClients
  /\ op' = "handleConnection"
  /\ clientId' = client
  /\ handshake' = token
  /\ IF token.kind # "none"
       THEN /\ connectedClients' = addClient(connectedClients, token.id, client)
            /\ registered' = [registered EXCEPT ![client] = token.id]
            /\ serverSockets' = IF lateFailure THEN serverSockets
                                ELSE serverSockets \cup {client}
       ELSE /\ lateFailure = FALSE
            /\ UNCHANGED <<connectedClients, registered, serverSockets>>
  /\ removeCalls' = <<>>
  /\ NoDelivery
  /\ UNCHANGED <<webhookToken, earlier, normalized, emitted, tryError>>

HandleConnectionAnonymous(client, token, lateFailure) ==
  /\ op = "idle"
  /\ client \notin serverSockets
  /\ before' = connectedClients
  /\ op' = "handleConnection"
  /\ clientId' = client
  /\ handshake' = token
  /\ IF token.kind # "invalid"
       THEN LET userId == IF token.kind = "valid" THEN token.id ELSE Anonymous
            IN /\ connectedClients' = addClient(connectedClients, userId, client)
               /\ registered' = [registered EXCEPT ![client] = userId]
               /\ serverSockets' = IF lateFailure THEN serverSockets
                                   ELSE serverSockets \cup {client}
       ELSE /\ lateFailure = FALSE
            /\ UNCHANGED <<connectedClients, registered, serverSockets>>
  /\ removeCalls' = <<>>
  /\ NoDelivery
  /\ UNCHANGED <<webhookToken, earlier, normalized, emitted, tryError>>

HandleConnection(client, token, lateFailure) ==
  /\ op = "idle"
  /\ client \notin serverSockets
  /\ before' = connectedClients
  /\ op' = "handleConnection"
  /\ clientId' = client
  /\ handshake' = token
  /\ IF token.kind = "valid"
       THEN /\ connectedClients' = addClient(connectedClients, token.id, client)
            /\ registered' = [registered EXCEPT ![client] = token.id]
            /\ serverSockets' = IF lateFailure THEN serverSockets
                                ELSE serverSockets \cup {client}
       ELSE /\ lateFailure = FALSE
            /\ UNCHANGED <<connectedClients, registered, serverSockets>>
  /\ removeCalls' = <<>>
  /\ NoDelivery
  /\ UNCHANGED <<webhookToken, earlier, normalized, emitted, tryError>>

(***************************************************************************)
(* NotificationGateway.handleDisconnect(client): removeClient inside a     *)
(* try whose catch logs and does not rethrow.  removeThrows: the service's *)
(* removeClient raises, which NotificationService.removeClient (Map.get,   *)
(* Map.delete) never does.                                                 *)
(***************************************************************************)
handleDisconnectRethrow(m, socketId, removeThrows) ==
  IF removeThrows
    THEN [clients |-> m, removed |-> <<socketId>>,
          outcome |-> Threw("WebSocketClientManagementException")]
    ELSE [clients |-> removeClient(m, socketId), removed |-> <<socketId>>,
          outcome |-> Returned]

handleDisconnect(m, socketId, removeThrows) ==
  IF removeThrows
    THEN [clients |-> m, removed |-> <<socketId>>, outcome |-> Returned]
    ELSE [clients |-> removeClient(m, socketId), removed |-> <<socketId>>,
          outcome |-> Returned]

(***************************************************************************)
(* handleDisconnect as the framework calls it when an open socket closes.  *)
(***************************************************************************)
HandleDisconnect(client) ==
  /\ op = "idle"
  /\ client \in serverSockets
  /\ before' = connectedClients
  /\ op' = "handleDisconnect"
  /\ clientId' = client
  /\ handshake' = NoToken
  /\ serverSockets' = serverSockets \ {client}
  /\ connectedClients' = handleDisconnect(connectedClients, client, FALSE).clients
  /\ registered' = [registered EXCEPT ![client] = NoUser]
  /\ removeCalls' = handleDisconnect(connectedClients, client, FALSE).removed
  /\ NoDelivery
  /\ UNCHANGED <<webhookToken, earlier, normalized, emitted, tryError>>

(***************************************************************************)
(* NotificationGateway.sendToAll(notification).                            *)
(***************************************************************************)
SendToAllCached(emitThrows) ==
  LET cached == IF earlier = <<>> THEN connectedClients
                ELSE SelectSeq(connectedClients,
                               LAMBDA c : c.socketId \in Range(earlier))
      g == gatewaySendToAll(cached, serverSockets, emitThrows)
  IN /\ op = "idle"
     /\ before' = connectedClients
     /\ op' = "sendToAll"
     /\ targetUsers' = Absent
     /\ failing' = emitThrows
     /\ connectedClients' =
          SelectSeq(connectedClients, LAMBDA c : c.socketId \notin Evicted(g))
     /\ registered' = [s \in SocketIds |->
                         IF s \in Evicted(g) THEN NoUser ELSE registered[s]]
     /\ attempts' = g.attempts
     /\ removeCalls' = g.removed
     /\ successful' = g.successful
     /\ calls' = <<>>
     /\ outcome' = g.outcome
     /\ response' = NoResponse
     /\ authHeader' = <<>>
     /\ NoHandshake
     /\ UNCHANGED <<serverSockets, webhookToken, earlier, normalized, emitted, tryError>>

SendToAll(emitThrows) ==
  LET g == gatewaySendToAll(connectedClients, serverSockets, emitThrows)
  IN /\ op = "idle"
     /\ before' = connectedClients
     /\ op' = "sendToAll"
     /\ targetUsers' = Absent
     /\ failing' = emitThrows
     /\ connectedClients' = g.clients
     /\ registered' = [s \in SocketIds |->
                         IF s \in Evicted(g) THEN NoUser ELSE registered[s]]
     /\ attempts' = g.attempts
     /\ removeCalls' = g.removed
     /\ successful' = g.successful
     /\ calls' = <<>>
     /\ outcome' = g.outcome
     /\ response' = NoResponse
     /\ authHeader' = <<>>
     /\ NoHandshake
     /\ UNCHANGED <<serverSockets, webhookToken, earlier, normalized, emitted, tryError>>

(***************************************************************************)
(* NotificationGateway.sendToUsers(notification, userIds).                 *)
(***************************************************************************)
SendToUsers(userIds, emitThrows) ==
  LET g == gatewaySendToUsers(connectedClients, userIds, serverSockets, emitThrows)
  IN /\ op = "idle"
     /\ before' = connectedClients
     /\ op' = "sendToUsers"
     /\ targetUsers' = userIds
     /\ failing' = emitThrows
     /\ connectedClients' = g.clients
     /\ registered' = [s \in SocketIds |->
                         IF s \in Evicted(g) THEN NoUser ELSE registered[s]]
     /\ attempts' = g.attempts
     /\ removeCalls' = g.removed
     /\ successful' = g.successful
     /\ calls' = <<>>
     /\ outcome' = g.outcome
     /\ response' = NoResponse
     /\ authHeader' = <<>>
     /\ NoHandshake
     /\ UNCHANGED <<serverSockets, webhookToken, earlier, normalized, emitted, tryError>>

(***************************************************************************)
(* WebhookController.receiveNotification(notification), past the guard and *)
(* the validation pipe: targetUsers is absent or an array of strings.      *)
(* header is the Authorization header the guard let through.               *)
(***************************************************************************)
Handle(header, tu, emitThrows) ==
  LET r == receiveNotification(connectedClients, tu, serverSockets, emitThrows)
  IN /\ op = "idle"
     /\ authHeader' = header
     /\ before' = connectedClients
     /\ op' = "receiveNotification"
     /\ targetUsers' = tu
     /\ failing' = emitThrows
     /\ connectedClients' = r.clients
     /\ registered' = [s \in SocketIds |->
                         IF s \in Evicted(r) THEN NoUser ELSE registered[s]]
     /\ attempts' = r.attempts
     /\ removeCalls' = r.removed
     /\ successful' = r.successful
     /\ calls' = r.calls
     /\ outcome' = r.outcome
     /\ response' = r.response
     /\ NoHandshake
     /\ UNCHANGED <<serverSockets, webhookToken, earlier, normalized, emitted, tryError>>

ReceiveNotification(tu, emitThrows) ==
  Handle(BearerHeader(webhookToken.value), tu, emitThrows)

(***************************************************************************)
(* The handler has returned and the event loop is free for the next event. *)
(***************************************************************************)
Forget ==
  /\ op # "idle"
  /\ op' = "idle"
  /\ before' = <<>>
  /\ NoHandshake
  /\ removeCalls' = <<>>
  /\ NoDelivery
  /\ UNCHANGED <<connectedClients, serverSockets, registered, webhookToken,
                 normalized, emitted, tryError>>

Idle ==
  /\ Forget
  /\ UNCHANGED earlier

\* every handler starts from the idle event loop (op = "idle")
Next ==
  \/ \E client \in SocketIds, token \in Tokens, lateFailure \in BOOLEAN :
       HandleConnection(client, token, lateFailure)
  \/ \E client \in SocketIds : HandleDisconnect(client)
  \/ \E emitThrows \in EmitFailures(UserIds) : SendToAll(emitThrows)
  \/ /\ op = "idle"
     /\ \E userIds \in TargetArgs :
          \E emitThrows \in EmitFailures(Range(userIds.value)) :
            SendToUsers(userIds, emitThrows)
  \/ /\ op = "idle"
     /\ \E tu \in TargetArgs :
          \E emitThrows \in EmitFailures(TargetedUsers(tu)) :
            ReceiveNotification(tu, emitThrows)
  \/ Idle

Spec == Init /\ [][Next]_vars

(***************************************************************************)
(* Connections opening and closing between broadcasts.  When the event     *)
(* loop takes the next event after a broadcast, the allSocketIds that      *)
(* broadcast iterated stay on record in earlier.                           *)
(***************************************************************************)
IdleAfterBroadcast ==
  /\ Forget
  /\ earlier' = IF op = "sendToAll" THEN MapKeys(before) ELSE earlier

NextBroadcasts ==
  \/ \E client \in SocketIds, token \in Tokens, lateFailure \in BOOLEAN :
       HandleConnection(client, token, lateFailure)
  \/ \E client \in SocketIds : HandleDisconnect(client)
  \/ \E emitThrows \in EmitFailures(UserIds) : SendToAll(emitThrows)
  \/ IdleAfterBroadcast

SpecBroadcasts == Init /\ [][NextBroadcasts]_vars

(***************************************************************************)
(* NotificationService.processWebhookNotification called on its own, any   *)
(* payload, one call after another.  uuidv4() is taken to return a value   *)
(* it has not returned to an earlier call (RFC 4122 version 4).            *)
(***************************************************************************)
ProcessWebhookNotification(webhookNotification, uuid) ==
  /\ Len(normalized) < MaxNotifications
  /\ \A i \in 1..Len(normalized) : normalized[i].uuid # uuid
  /\ op' = "processWebhookNotification"
  /\ normalized' = Append(normalized,
        [payload |-> webhookNotification, uuid |-> uuid,
         result |-> processWebhookNotification(webhookNotification, uuid)])
  /\ UNCHANGED <<webhookToken, connectedClients, serverSockets, registered,
                 clientId, handshake, authHeader, before, targetUsers, failing,
                 attempts, removeCalls, successful, calls, outcome, response,
                 earlier, emitted, tryError>>

NextNormalizer ==
  \E webhookNotification \in Payloads, uuid \in Uuids :
    ProcessWebhookNotification(webhookNotification, uuid)

SpecNormalizer == Init /\ [][NextNormalizer]_vars

(***************************************************************************)
(* POST /notifications/webhook as the framework serves it: @UseGuards runs *)
(* WebhookAuthGuard.canActivate on the request and calls the handler only  *)
(* when it returns true; an exception of the guard is the response.        *)
(***************************************************************************)
WebhookRequest(header, tu, emitThrows) ==
  IF canActivate(header, webhookToken).granted
    THEN Handle(header, tu, emitThrows)
    ELSE /\ op = "idle"
         /\ op' = "canActivate"
         /\ authHeader' = header
         /\ before' = connectedClients
         /\ targetUsers' = Absent
         /\ failing' = {}
         /\ attempts' = <<>>
         /\ removeCalls' = <<>>
         /\ successful' = <<>>
         /\ calls' = <<>>
         /\ outcome' = Threw("WebhookAuthenticationException")
         /\ response' = NoResponse
         /\ NoHandshake
         /\ UNCHANGED <<connectedClients, serverSockets, registered, webhookToken,
                        earlier, normalized, emitted, tryError>>

\* any deployment: WEBHOOK_API_TOKEN unset, empty or set
InitGuard ==
  /\ webhookToken \in WebhookTokens
  /\ NoRequest

NextGuard ==
  \/ \E client \in SocketIds, token \in Tokens, lateFailure \in BOOLEAN :
       HandleConnection(client, token, lateFailure)
  \/ \E client \in SocketIds : HandleDisconnect(client)
  \/ /\ op = "idle"
     /\ \E header \in Headers, tu \in TargetArgs :
          \E emitThrows \in EmitFailures(TargetedUsers(tu)) :
            WebhookRequest(header, tu, emitThrows)
  \/ Idle

SpecGuard == InitGuard /\ [][NextGuard]_vars

(***************************************************************************)
(* receiveNotification with the payload it relays.  Past the early return  *)
(* the handler normalizes the payload once; sendToAll / sendToUsers hand   *)
(* the service that notification, the service transforms it once, before   *)
(* its loop, and every emitFunction call of the loop gets that object.     *)
(* The response carries processedNotification.id.                          *)
(***************************************************************************)
RelayPayloads == {p \in Payloads : ~p.id.some}

\* no targetUsers, or one identity
RelayTargets == {Absent} \cup {Array(<<u>>) : u \in UserIds}

RelayNotification(webhookNotification, uuid, tu, emitThrows) ==
  LET r == receiveNotification(connectedClients, tu, serverSockets, emitThrows)
      processedNotification == processWebhookNotification(webhookNotification, uuid)
      websocketNotification == transformToWebSocketDto(processedNotification)
      early == getConnectedClientsCount(connectedClients) = 0
  IN /\ op = "idle"
     /\ authHeader' = BearerHeader(webhookToken.value)
     /\ before' = connectedClients
     /\ op' = "receiveNotification"
     /\ targetUsers' = tu
     /\ failing' = emitThrows
     /\ connectedClients' = r.clients
     /\ registered' = [s \in SocketIds |->
                         IF s \in Evicted(r) THEN NoUser ELSE registered[s]]
     /\ attempts' = r.attempts
     /\ removeCalls' = r.removed
     /\ successful' = r.successful
     /\ calls' = r.calls
     /\ outcome' = r.outcome
     /\ normalized' =
          IF early THEN <<>>
          ELSE <<[payload |-> webhookNotification, uuid |-> uuid,
                  result |-> processedNotification]>>
     /\ emitted' = [i \in 1..Len(r.attempts) |->
                      [socketId |-> r.attempts[i],
                       notification |-> websocketNotification]]
     /\ response' = IF early THEN r.response
                    ELSE [r.response EXCEPT
                            !.notificationId = processedNotification.id]
     /\ NoHandshake
     /\ UNCHANGED <<serverSockets, webhookToken, earlier, tryError>>

IdleRelay ==
  /\ op # "idle"
  /\ op' = "idle"
  /\ before' = <<>>
  /\ NoHandshake
  /\ removeCalls' = <<>>
  /\ NoDelivery
  /\ normalized' = <<>>
  /\ emitted' = <<>>
  /\ tryError' = NoError
  /\ UNCHANGED <<connectedClients, serverSockets, registered, webhookToken,
                 earlier>>

NextRelay ==
  \/ \E client \in SocketIds, token \in Tokens, lateFailure \in BOOLEAN :
       HandleConnection(client, token, lateFailure)
  \/ \E client \in SocketIds : HandleDisconnect(client)
  \/ /\ op = "idle"
     /\ \E webhookNotification \in RelayPayloads, uuid \in Uuids, tu \in RelayTargets :
          \E emitThrows \in EmitFailures(TargetedUsers(tu)) :
            RelayNotification(webhookNotification, uuid, tu, emitThrows)
  \/ IdleRelay

SpecRelay == Init /\ [][NextRelay]_vars

(***************************************************************************)
(* receiveNotification with a NotificationService whose                    *)
(* processWebhookNotification raises error, as the controller's tests      *)
(* inject it.  The call sits in the try after the early return, before any *)
(* gateway call; the catch block answers.                                  *)
(***************************************************************************)
ReceiveNotificationRaising(tu, error) ==
  /\ op = "idle"
  /\ getConnectedClientsCount(connectedClients) # 0
  /\ authHeader' = BearerHeader(webhookToken.value)
  /\ before' = connectedClients
  /\ op' = "receiveNotification"
  /\ targetUsers' = tu
  /\ failing' = {}
  /\ attempts' = <<>>
  /\ removeCalls' = <<>>
  /\ successful' = <<>>
  /\ calls' = <<>>
  /\ tryError' = error
  /\ outcome' = catchError(error)
  /\ response' = NoResponse
  /\ NoHandshake
  /\ UNCHANGED <<connectedClients, serverSockets, registered, webhookToken,
                 earlier, normalized, emitted>>

NextRaising ==
  \/ \E client \in SocketIds, token \in Tokens, lateFailure \in BOOLEAN :
       HandleConnection(client, token, lateFailure)
  \/ \E client \in SocketIds : HandleDisconnect(client)
  \/ /\ op = "idle"
     /\ \E tu \in RelayTargets, error \in Errors :
          ReceiveNotificationRaising(tu, error)
  \/ IdleRelay

SpecRaising == Init /\ [][NextRaising]_vars

(***************************************************************************)
(* Vocabulary of the properties.                                           *)
(***************************************************************************)
Broadcasting ==
  \/ op = "sendToAll"
  \/ op = "receiveNotification" /\ calls = <<"sendToAll">>

Targeting ==
  \/ op = "sendToUsers" /\ targetUsers.isArray
  \/ op = "receiveNotification" /\ calls = <<"sendToUsers">>

\* delivery handlers leave server.sockets alone, so this is the send's fate
SendFails(s) == s \notin serverSockets \/ s \in failing

IsRegistered(s) == MapHas(connectedClients, s)

SocketsBefore == Range(MapKeys(before))

SocketsBeforeOf(users) ==
  {before[i].socketId : i \in {j \in 1..Len(before) : before[j].userId \in users}}

Occurrences(seq, x) == Cardinality({i \in 1..Len(seq) : seq[i] = x})

\* the connections a targeted send visits for the k-th named identity: those
\* registered under it at the call, less the ones a visit for an earlier
\* naming of the same identity has evicted
VisitedFor(k) ==
  LET u == targetUsers.value[k]
      namedBefore == \E j \in 1..(k - 1) : targetUsers.value[j] = u
  IN SelectSeq(MapKeys(getClientsByUserId(before, u)),
               LAMBDA s : namedBefore => ~SendFails(s))

RECURSIVE VisitedUpTo(_)
VisitedUpTo(k) == IF k = 0 THEN <<>> ELSE VisitedUpTo(k - 1) \o VisitedFor(k)

(***************************************************************************)
(* C1: after any sequence of addClient / removeClient calls, for every     *)
(* identity u getClientsByUserId(u) lists exactly the connection ids        *)
(* currently registered under u (each once), and every registered          *)
(* connection id appears under exactly one identity.                       *)
(***************************************************************************)
C1_RegistryConsistency ==
  /\ \A u \in UserIds :
       LET ids == MapKeys(getClientsByUserId(connectedClients, u))
       IN /\ Range(ids) = {s \in SocketIds : registered[s] = u}
          /\ \A s \in Range(ids) : Occurrences(ids, s) = 1
  /\ \A s \in Range(MapKeys(getConnectedClients(connectedClients))) :
       Cardinality({u \in UserIds :
         s \in Range(MapKeys(getClientsByUserId(connectedClients, u)))}) = 1

\* a registered id was registered again under another identity
C1_Witness ==
  /\ op = "handleConnection"
  /\ \E i \in 1..Len(before) :
       /\ registered[before[i].socketId] # NoUser
       /\ registered[before[i].socketId] # before[i].userId
  /\ Len(connectedClients) >= 2

(***************************************************************************)
(* C2: after a broadcast or sendToUsers attempt returns, every connection  *)
(* whose send failed during the attempt is absent from the registry and    *)
(* every connection whose send succeeded is still registered, for any      *)
(* number of failing connections.                                          *)
(***************************************************************************)
C2_FailedEvictedSucceededKept ==
  (Broadcasting \/ Targeting) /\ outcome.kind = "return" =>
    \A s \in Range(attempts) :
      IF SendFails(s) THEN ~IsRegistered(s) ELSE IsRegistered(s)

\* one attempt in which a send failed and a later send succeeded
C2_Witness ==
  /\ Broadcasting \/ Targeting
  /\ outcome.kind = "return"
  /\ Len(attempts) >= 2
  /\ SendFails(attempts[1])
  /\ ~SendFails(attempts[Len(attempts)])

(***************************************************************************)
(* C3: for a broadcast over k registered connections of which f fail to    *)
(* send, the outcome reported to the producer is a success with            *)
(* totalClients = k and deliveredTo = k - f.                               *)
(***************************************************************************)
C3_BroadcastDeliveredCount ==
  op = "receiveNotification" /\ calls = <<"sendToAll">> =>
    /\ response.status = "success"
    /\ response.totalClients = Len(before)
    /\ response.deliveredTo =
         Len(before) - Cardinality({s \in SocketsBefore : SendFails(s)})

(***************************************************************************)
(* C4: in a broadcast every connection id of the call-time snapshot        *)
(* receives exactly one send attempt, whichever earlier attempts failed.   *)
(***************************************************************************)
C4_BroadcastAttemptsAll ==
  Broadcasting =>
    /\ Range(attempts) = SocketsBefore
    /\ \A s \in SocketsBefore : Occurrences(attempts, s) = 1

\* the first connection of the snapshot failed and the next was attempted
C4_Witness ==
  /\ Broadcasting
  /\ Len(before) >= 2
  /\ SendFails(before[1].socketId)
  /\ attempts[Len(attempts)] = before[Len(before)].socketId
  /\ Len(connectedClients) < Len(before)

(***************************************************************************)
(* C5: if broadcast is called when k connections are registered and every  *)
(* send succeeds, exactly those k connections are sent the notification    *)
(* and the outcome has deliveredTo = k = totalClients.                     *)
(***************************************************************************)
C5_BroadcastAllSucceed ==
  (/\ Broadcasting \/ (op = "receiveNotification" /\ ~isTargeted(targetUsers))
   /\ \A s \in SocketsBefore : ~SendFails(s))
  =>
  (/\ successful = MapKeys(before)
   /\ op = "receiveNotification" =>
        /\ response.deliveredTo = Len(before)
        /\ response.totalClients = Len(before))

\* a producer's broadcast over two connections of one identity
C5_Witness ==
  /\ op = "receiveNotification"
  /\ calls = <<"sendToAll">>
  /\ Len(before) >= 2
  /\ \A s \in SocketsBefore : ~SendFails(s)
  /\ Cardinality({before[i].userId : i \in 1..Len(before)}) = 1
  /\ response.deliveredTo = Len(before)

(***************************************************************************)
(* C6: sendToUsers(n, ids) attempts delivery only to connections           *)
(* registered under an identity in ids, never to a connection registered   *)
(* under any other identity.                                               *)
(***************************************************************************)
C6_TargetedOnlyNamed ==
  Targeting =>
    \A s \in Range(attempts) : s \in SocketsBeforeOf(Range(targetUsers.value))

\* an identity is sent to while a connection of another identity is registered
C6_Witness ==
  /\ Targeting
  /\ attempts # <<>>
  /\ SocketsBefore \ SocketsBeforeOf(Range(targetUsers.value)) # {}

(***************************************************************************)
(* C7: sendToUsers called with an empty identity list, or with null /      *)
(* undefined, yields the Empty-target error and makes zero send attempts.  *)
(***************************************************************************)
C7_EmptyTargetRejected ==
  op = "sendToUsers" /\ (~targetUsers.isArray \/ targetUsers.value = <<>>) =>
    /\ outcome.kind = "throw"
    /\ attempts = <<>>

(***************************************************************************)
(* C8: a producer request whose targetUsers field is present but empty is  *)
(* delivered as a broadcast to all connected clients and reported with     *)
(* targetType 'broadcast'; the targeted send path is not invoked.          *)
(***************************************************************************)
C8_EmptyTargetUsersBroadcasts ==
  op = "receiveNotification" /\ targetUsers = Array(<<>>) =>
    /\ attempts = MapKeys(before)
    /\ response.targetType = "broadcast"
    /\ ~response.hasTargetUsers
    /\ \A i \in 1..Len(calls) : calls[i] # "sendToUsers"

\* an empty targetUsers array reached two connections of different identities
C8_Witness ==
  /\ op = "receiveNotification"
  /\ targetUsers = Array(<<>>)
  /\ calls = <<"sendToAll">>
  /\ Len(attempts) >= 2
  /\ Cardinality({before[i].userId : i \in 1..Len(before)}) = 2

(***************************************************************************)
(* C9: a targeted request that names only identities with no live          *)
(* connection returns, in every registry state, a success outcome with     *)
(* targetType 'targeted', deliveredTo = 0 and targetUsers equal to the     *)
(* requested list, and makes zero send attempts.                           *)
(***************************************************************************)
C9_OfflineTargetsSucceed ==
  (/\ op = "receiveNotification"
   /\ isTargeted(targetUsers)
   /\ SocketsBeforeOf(Range(targetUsers.value)) = {})
  =>
  (/\ response.status = "success"
   /\ response.targetType = "targeted"
   /\ response.deliveredTo = 0
   /\ response.hasTargetUsers
   /\ response.targetUsers = targetUsers.value
   /\ attempts = <<>>)

(***************************************************************************)
(* C10: for a targeted request the outcome has totalClients = the          *)
(* registry-wide connection count at call time, deliveredTo = the number   *)
(* of successful sends across all targeted identities, and targetUsers =   *)
(* the input list verbatim, including the identities that were offline.    *)
(***************************************************************************)
C10_TargetedOutcome ==
  op = "receiveNotification" /\ isTargeted(targetUsers) =>
    /\ response.totalClients = Len(before)
    /\ response.deliveredTo =
         Cardinality({i \in 1..Len(attempts) : ~SendFails(attempts[i])})
    /\ response.hasTargetUsers
    /\ response.targetUsers = targetUsers.value

C12_NoClientsStillProcessed ==
  (op = "receiveNotification" /\ before = <<>> /\ ~isTargeted(targetUsers)) =>
    ( /\ response.status = "success"
      /\ response.notificationId = "uuid"
      /\ calls = <<"sendToAll">> )

C14_BearerTokenOnly ==
  /\ op = "receiveNotification" =>
       ( /\ ~Falsy(webhookToken)
         /\ authHeader = BearerHeader(webhookToken.value) )
  /\ op = "canActivate" =>
       ( /\ outcome = Threw("WebhookAuthenticationException")
         /\ authHeader # BearerHeader(webhookToken.value) \/ Falsy(webhookToken)
         /\ attempts = <<>>
         /\ calls = <<>>
         /\ connectedClients = before )

C17_DisconnectRemovesNeverRaises ==
  /\ op = "handleDisconnect" =>
       ( /\ ~MapHas(connectedClients, clientId)
         /\ outcome = Returned
         /\ \A i \in 1..Len(before) :
              before[i].socketId # clientId => before[i] \in Range(connectedClients)
         /\ Range(connectedClients) \subseteq Range(before) )
  /\ \A s \in SocketIds, removeThrows \in BOOLEAN :
       LET r == handleDisconnect(connectedClients, s, removeThrows)
       IN /\ r.outcome = Returned
          /\ ~removeThrows => ~MapHas(r.clients, s)

\* one of two registered connections disconnects
C17_Witness ==
  /\ op = "handleDisconnect"
  /\ Len(before) = 2
  /\ MapHas(before, clientId)
  /\ Len(connectedClients) = 1
  /\ outcome = Returned

(***************************************************************************)
(* C18: on every registry the system reaches and for every connection id,  *)
(* removing the id twice gives the registry that removing it once gives;   *)
(* removing an id that is not registered gives the registry unchanged; and *)
(* removing a registered id takes out that one entry and keeps every other *)
(* entry, in order.  A disconnect of a socket that is not registered       *)
(* leaves the registry as it was and returns.                              *)
(***************************************************************************)
C18_RemoveIdempotent ==
  /\ \A s \in SocketIds :
       LET m == connectedClients
           r == removeClient(m, s)
       IN /\ removeClient(r, s) = r
          /\ ~MapHas(m, s) => r = m
          /\ MapHas(m, s) =>
               ( /\ Len(r) = Len(m) - 1
                 /\ ~MapHas(r, s)
                 /\ \A i \in 1..Len(m) : m[i].socketId # s => m[i] \in Range(r) )
          /\ \A i, j \in 1..Len(r) :
               i < j => \E a, b \in 1..Len(m) : a < b /\ m[a] = r[i] /\ m[b] = r[j]
  /\ (op = "handleDisconnect" /\ ~MapHas(before, clientId)) =>
       (connectedClients = before /\ outcome = Returned)

\* a socket evicted by a failed send disconnects: its second removal, with
\* another connection registered
C18_Witness ==
  /\ op = "handleDisconnect"
  /\ ~MapHas(before, clientId)
  /\ before # <<>>
  /\ connectedClients = before

(***************************************************************************)
(* C19: a handshake with a verified token always ends with the connection  *)
(* registered.  An id that was not registered makes the count one larger;  *)
(* an id that was registered keeps the count and its entry is replaced:    *)
(* the id is listed once, under the new identity and under no other.  The  *)
(* other entries are kept.                                                 *)
(***************************************************************************)
C19_AddClientOverwrites ==
  (op = "handleConnection" /\ handshake.kind = "valid") =>
    ( /\ Len(connectedClients) =
           IF MapHas(before, clientId) THEN Len(before) ELSE Len(before) + 1
      /\ Cardinality({i \in 1..Len(connectedClients) :
                        connectedClients[i].socketId = clientId}) = 1
      /\ \A u \in UserIds :
           (clientId \in Range(MapKeys(getClientsByUserId(connectedClients, u))))
             <=> (u = handshake.id)
      /\ \A i \in 1..Len(before) :
           before[i].socketId # clientId => before[i] \in Range(connectedClients) )

\* an id still registered under one identity is registered again under another
C19_Witness ==
  /\ op = "handleConnection"
  /\ handshake.kind = "valid"
  /\ \E i \in 1..Len(before) :
       before[i].socketId = clientId /\ before[i].userId # handshake.id
  /\ Len(connectedClients) = Len(before)
  /\ getClientsByUserId(connectedClients, handshake.id) # <<>>

(***************************************************************************)
(* C20: getConnectedUsers lists exactly the identities that have at least  *)
(* one registered connection, each once, and isUserConnected(u) holds      *)
(* exactly when u has at least one registered connection.  Registered      *)
(* connections are those added and not removed since, as recorded per      *)
(* connection id at each add and each removal.                             *)
(***************************************************************************)
C20_ConnectedUsersExact ==
  LET users == getConnectedUsers(connectedClients)
  IN /\ Range(users) = {registered[s] : s \in SocketIds} \ {NoUser}
     /\ \A i, j \in 1..Len(users) : users[i] = users[j] => i = j
     /\ \A u \in UserIds :
          isUserConnected(connectedClients, u) <=> \E s \in SocketIds : registered[s] = u

\* one of two connections of an identity has gone and the identity is still
\* connected, listed once before and after
C20_Witness ==
  /\ op = "handleDisconnect"
  /\ Len(before) = 2
  /\ before[1].userId = before[2].userId
  /\ Len(getConnectedUsers(before)) = 1
  /\ Len(connectedClients) = 1
  /\ isUserConnected(connectedClients, before[1].userId)
  /\ getConnectedUsers(connectedClients) = <<before[1].userId>>

(***************************************************************************)
(* C21: every notification processWebhookNotification returns has a        *)
(* priority among low, normal and high: the payload's priority when that   *)
(* is one of the three, and normal when the payload has no priority or any *)
(* other value.                                                            *)
(***************************************************************************)
C21_PriorityNormalized ==
  \A i \in 1..Len(normalized) :
    LET given == normalized[i].payload.priority
        result == normalized[i].result.priority
    IN /\ result \in Priorities
       /\ result = IF given.some /\ given.value \in Priorities
                     THEN given.value ELSE "normal"

(***************************************************************************)
(* C22: the ids of the notifications processWebhookNotification has        *)
(* returned are pairwise different, also when the payloads are identical,  *)
(* and each id is the generator's value of that call, whatever id the      *)
(* payload carries.                                                        *)
(***************************************************************************)
C22_FreshIds ==
  /\ \A i, j \in 1..Len(normalized) :
       i # j => normalized[i].result.id # normalized[j].result.id
  /\ \A i \in 1..Len(normalized) :
       normalized[i].result.id = normalized[i].uuid

\* the same payload, carrying an id of its own, normalized twice
C22_Witness ==
  /\ Len(normalized) = 2
  /\ normalized[1].payload = normalized[2].payload
  /\ normalized[1].payload.id.some
  /\ normalized[1].result.id # normalized[2].result.id

(***************************************************************************)
(* C23: a broadcast attempts exactly the connections registered when it is *)
(* called, whatever an earlier broadcast iterated: a connection registered *)
(* since the earlier broadcast is attempted, a connection removed since is *)
(* not, and a connection that is not registered at the call is never       *)
(* attempted.                                                              *)
(***************************************************************************)
C23_SnapshotAtCallTime ==
  op = "sendToAll" =>
    ( /\ attempts = MapKeys(before)
      /\ \A s \in SocketIds \ Range(earlier) :
           MapHas(before, s) => s \in Range(attempts)
      /\ \A s \in Range(earlier) :
           ~MapHas(before, s) => s \notin Range(attempts) )

\* between two broadcasts one connection went and another came
C23_Witness ==
  /\ op = "sendToAll"
  /\ earlier # <<>>
  /\ \E s \in Range(attempts) : s \notin Range(earlier)
  /\ \E s \in Range(earlier) : s \notin Range(attempts)

C26_TypedResponse ==
  /\ op = "receiveNotification" =>
       \/ outcome = Returned /\ response.status \in {"success", "error"}
       \/ /\ outcome.kind = "throw"
          /\ outcome.exception \in TypedFailures
          /\ response = NoResponse
  /\ \A error \in Errors :
       /\ catchError(error).kind = "throw"
       /\ catchError(error).exception \in TypedFailures

\* every send of the request failed and the producer still gets its response
C26_Witness ==
  /\ op = "receiveNotification"
  /\ authHeader = BearerHeader(webhookToken.value)
  /\ attempts # <<>>
  /\ successful = <<>>
  /\ outcome = Returned
  /\ response.status = "success"

(***************************************************************************)
(* C27: a broadcast visits the call-time snapshot in registration order.   *)
(* A targeted send takes the identities in input order and the connections *)
(* of each in registration order; an identity named again is visited again *)
(* with the connections that are still registered.  The list of successful *)
(* connection ids is the visited connections whose send succeeded, in      *)
(* visiting order.                                                         *)
(***************************************************************************)
C27_VisitingOrder ==
  /\ Broadcasting => attempts = MapKeys(before)
  /\ Targeting => attempts = VisitedUpTo(Len(targetUsers.value))
  /\ (Broadcasting \/ Targeting) =>
       successful = SelectSeq(attempts, LAMBDA s : ~SendFails(s))

\* the identity registered last is named first and visited first
C27_Witness ==
  /\ op = "sendToUsers"
  /\ Len(before) = 2
  /\ before[1].userId # before[2].userId
  /\ targetUsers.value = <<before[2].userId, before[1].userId>>
  /\ attempts = <<before[2].socketId, before[1].socketId>>
  /\ successful = attempts

(***************************************************************************)
(* C28: a targeted send attempts each connection at most once per call,    *)
(* also when the identity list names an identity more than once.           *)
(***************************************************************************)
C28_AttemptedAtMostOnce ==
  Targeting => \A s \in SocketIds : Occurrences(attempts, s) <= 1

(***************************************************************************)
(* C29: over the life of a connection the gateway calls removeClient for   *)
(* its id exactly once: no handler calls it twice for one id, and when     *)
(* handleDisconnect calls it the connection is still registered, no        *)
(* earlier call having removed it.                                         *)
(***************************************************************************)
C29_RemovedExactlyOnce ==
  /\ \A s \in SocketIds : Occurrences(removeCalls, s) <= 1
  /\ op = "handleDisconnect" =>
       (removeCalls = <<clientId>> /\ MapHas(before, clientId))

C31_OnlyStaleEvicted ==
  (Broadcasting \/ Targeting) =>
    \A s \in SocketsBefore : s \in serverSockets => IsRegistered(s)

(***************************************************************************)
(* C31 amended: a delivery attempt removes a connection whose socket is    *)
(* open only when it was attempted and its emit raised; an open connection *)
(* whose emit does not raise, attempted or not, keeps its entry.           *)
(***************************************************************************)
C31_OpenEvictedOnlyOnFailedEmit ==
  (Broadcasting \/ Targeting) =>
    \A i \in 1..Len(before) :
      LET s == before[i].socketId
      IN s \in serverSockets =>
           /\ ~IsRegistered(s) => (s \in failing /\ s \in Range(attempts))
           /\ s \notin failing => before[i] \in Range(connectedClients)

\* of two open connections the one whose emit raised is evicted, the other
\* received the notification and stays
C31_Witness ==
  /\ Broadcasting \/ Targeting
  /\ Len(before) = 2
  /\ SocketsBefore \subseteq serverSockets
  /\ \E s \in failing : s \in Range(attempts) /\ ~IsRegistered(s)
  /\ \E s \in Range(successful) : IsRegistered(s)

(***************************************************************************)
(* C32: on every registry the system reaches, emitToSocket for an id the   *)
(* server does not hold calls no socket.emit, leaves the id unregistered   *)
(* and throws WebSocketNotificationException; for a held socket whose emit *)
(* raises it calls emit once, leaves the id unregistered and throws the    *)
(* same exception; and in both cases it throws that exception, the         *)
(* registry left as it was, when removeClient raises.  In a delivery every *)
(* such id has had removeClient called for it and is not among the         *)
(* successful ones.                                                        *)
(***************************************************************************)
C32_EmitToSocketFailure ==
  /\ \A s \in SocketIds, emitThrows \in SUBSET serverSockets,
        removeThrows \in BOOLEAN :
       LET r == emitToSocketRemoving(connectedClients, serverSockets, emitThrows,
                                     s, removeThrows)
       IN /\ (s \notin serverSockets \/ s \in emitThrows) =>
               ( /\ r.emits = IF s \in serverSockets THEN 1 ELSE 0
                 /\ r.threw
                 /\ r.exception = "WebSocketNotificationException"
                 /\ r.removals >= 1
                 /\ IF removeThrows THEN r.clients = connectedClients
                    ELSE r.clients = removeClient(connectedClients, s) )
          /\ (s \in serverSockets /\ s \notin emitThrows) =>
               ( /\ r.emits = 1
                 /\ ~r.threw
                 /\ r.clients = connectedClients )
  /\ (Broadcasting \/ Targeting) =>
       \A s \in Range(attempts) :
         SendFails(s) =>
           ( /\ s \in Range(removeCalls)
             /\ s \notin Range(successful)
             /\ ~IsRegistered(s) )

\* one delivery meets a registered id the server no longer holds and a held
\* socket whose emit raises
C32_Witness ==
  /\ Broadcasting \/ Targeting
  /\ \E s \in Range(attempts) : s \notin serverSockets /\ ~IsRegistered(s)
  /\ \E s \in Range(attempts) : s \in failing /\ ~IsRegistered(s)
  /\ successful = <<>>

(***************************************************************************)
(* C33: in one webhook delivery every emit call is given the same          *)
(* notification; its id is the id the normalizer assigned in this request, *)
(* which is the notificationId of the response; its source is 'webhook';   *)
(* and its type and priority (message and data are copied like type) are   *)
(* those of the normalized notification.                                   *)
(***************************************************************************)
C33_SamePayloadToAll ==
  (op = "receiveNotification" /\ attempts # <<>>) =>
    ( /\ Len(normalized) = 1
      /\ Len(emitted) = Len(attempts)
      /\ \A i \in 1..Len(emitted) :
           LET n == emitted[i].notification
               processed == normalized[1].result
           IN /\ emitted[i].socketId = attempts[i]
              /\ n = emitted[1].notification
              /\ n.id = normalized[1].uuid
              /\ n.id = response.notificationId
              /\ n.source = "webhook"
              /\ n.type = processed.type
              /\ n.priority = processed.priority )

\* two connections are reached with a notification of high priority
C33_Witness ==
  /\ op = "receiveNotification"
  /\ Len(successful) = 2
  /\ Len(emitted) = 2
  /\ emitted[1].notification.priority = "high"
  /\ emitted[2].notification = emitted[1].notification
  /\ response.notificationId = emitted[2].notification.id

(***************************************************************************)
(* C34: the exception receiveNotification throws for an error raised in    *)
(* its try block follows a fixed precedence.  Name 'ValidationError' or    *)
(* status 400 gives WebhookValidationException whatever the message says;  *)
(* otherwise a message with 'notification' or 'processing' gives           *)
(* WebhookProcessingException, also when it has 'delivery' or 'send' too;  *)
(* otherwise a message with 'delivery' or 'send' gives                     *)
(* WebhookDeliveryException; any other error, one without message          *)
(* included, gives WebhookProcessingException with the 'unexpected error'  *)
(* message.  Nothing is sent and the registry is left as it was.           *)
(***************************************************************************)
C34_ErrorPrecedence ==
  (op = "receiveNotification" /\ tryError # NoError) =>
    LET validation == tryError.name = "ValidationError" \/ tryError.status = 400
        words == IF tryError.message.some THEN tryError.message.words ELSE {}
        processing == words \cap {"notification", "processing"} # {}
        delivery == words \cap {"delivery", "send"} # {}
    IN /\ outcome.kind = "throw"
       /\ validation =>
            ( /\ outcome.exception = "WebhookValidationException"
              /\ outcome.text = "Invalid notification data: " )
       /\ (~validation /\ processing) =>
            ( /\ outcome.exception = "WebhookProcessingException"
              /\ outcome.text = "Failed to process notification: "
              /\ outcome.wrapped = tryError.message )
       /\ (~validation /\ ~processing /\ delivery) =>
            ( /\ outcome.exception = "WebhookDeliveryException"
              /\ outcome.text = "Failed to deliver notification: " )
       /\ (~validation /\ ~processing /\ ~delivery) =>
            ( /\ outcome.exception = "WebhookProcessingException"
              /\ outcome.text =
                   "An unexpected error occurred while processing the webhook" )
       /\ attempts = <<>>
       /\ connectedClients = before
       /\ response = NoResponse

\* a status-400 error whose message speaks of delivery and of processing
C34_Witness ==
  /\ op = "receiveNotification"
  /\ tryError.status = 400
  /\ tryError.name = "Error"
  /\ tryError.message.some
  /\ {"delivery", "processing"} \subseteq tryError.message.words
  /\ outcome.exception = "WebhookValidationException"

(***************************************************************************)
(* C35: every response of receiveNotification has deliveredTo at most      *)
(* totalClients, whatever the registry and the targetUsers list, lists     *)
(* that name an identity twice included.                                   *)
(***************************************************************************)
C35_DeliveredAtMostTotal ==
  (op = "receiveNotification" /\ outcome = Returned) =>
    response.deliveredTo <= response.totalClients

(***************************************************************************)
(* C36: after sendToAll, sendToUsers or a webhook delivery the registry is *)
(* the registry of before, in the same order and with the same identities, *)
(* less exactly the connections that were attempted and whose send failed. *)
(* No entry is added, and in a targeted send every connection of an        *)
(* identity that was not named is still registered under its identity.     *)
(***************************************************************************)
C36_RegistryFrame ==
  op \in {"sendToAll", "sendToUsers", "receiveNotification"} =>
    ( /\ connectedClients =
           SelectSeq(before, LAMBDA c :
             ~(c.socketId \in Range(attempts) /\ SendFails(c.socketId)))
      /\ Range(connectedClients) \subseteq Range(before)
      /\ (Targeting \/ op = "sendToUsers") =>
           \A i \in 1..Len(before) :
             before[i].userId \notin Range(targetUsers.value) =>
               before[i] \in Range(connectedClients) )

\* a targeted send evicts the named identity's connection and leaves the
\* connection of the other identity, whose socket is gone, registered
C36_Witness ==
  /\ op = "sendToUsers"
  /\ Len(before) = 2
  /\ before[1].userId # before[2].userId
  /\ Len(attempts) = 1
  /\ SendFails(attempts[1])
  /\ Len(connectedClients) = 1
  /\ connectedClients[1].socketId \notin serverSockets
  /\ connectedClients[1] \in Range(before)

(***************************************************************************)
(* C37: when handleConnection has rejected a client, that is sent it the   *)
(* AUTHENTICATION_REQUIRED error and disconnected it, the client's id is   *)
(* not registered, also when the rejection follows a failure after         *)
(* addClient.                                                              *)
(***************************************************************************)
C37_RejectedNotRegistered ==
  (op = "handleConnection" /\ clientId \notin serverSockets) =>
    ~IsRegistered(clientId)

====
